---- MODULE Spec2Model ----
(***************************************************************************)
(* Model of yb/consensus/consensus.cc: ConsensusRound (callback delivery   *)
(* and term binding) and Consensus (round factory, fault hook registry and *)
(* hook dispatch).  Calls that touch shared members more than once are     *)
(* split at each access, so that calls of different threads interleave.    *)
(***************************************************************************)
EXTENDS Integers, Sequences, FiniteSets, TLC

\* ------------------------------------------------------------------ bounds
MaxRounds == 2
MaxLowTerm == 0
MaxNotify == 2
HighTerm == 12

Threads == {"t1", "t2"}

\* ------------------------------------------------------- values of the code
Null == "null"

\* ConsensusRound::kUnboundTerm, the value of bound_term_ of a Round that was
\* never bound.
kUnboundTerm == -1

Msgs == {"msg"}
Callbacks == {"cb"}

StatusOK == [code |-> "OK", msg |-> <<>>]
NoStatus == [code |-> "none", msg |-> <<>>]

\* The statuses a caller hands to NotifyReplicationFinished.
NotifyStatuses ==
  { StatusOK,
    [code |-> "Aborted", msg |-> <<"cancelled">>] }

\* The terms the Role goes through: the low ones and a two-digit one.
Terms == (0 .. MaxLowTerm) \cup {HighTerm}

\* The values of current_term a caller hands to CheckBoundTerm.
TermArgs == {kUnboundTerm} \cup Terms

\* ---------------------------------------------------------------- strings
\* A string is a sequence of pieces: a literal, or one character of a number.
DigitChars == <<"0", "1", "2", "3", "4", "5", "6", "7", "8", "9">>

RECURSIVE NatDigits(_)
NatDigits(n) ==
  IF n < 10 THEN <<DigitChars[n + 1]>>
  ELSE NatDigits(n \div 10) \o <<DigitChars[(n % 10) + 1]>>

\* The decimal text of an int64_t, as Substitute formats an integer argument.
SimpleItoa(n) == IF n < 0 THEN <<"-">> \o NatDigits(0 - n) ELSE NatDigits(n)

PlaceholderIndex(piece) ==
  CASE piece = "$0" -> 1
    [] piece = "$1" -> 2
    [] OTHER -> 0

\* strings::Substitute: every $i of the format is replaced by argument i.
RECURSIVE Substitute(_, _)
Substitute(format, args) ==
  IF format = <<>> THEN <<>>
  ELSE LET i == PlaceholderIndex(Head(format))
       IN (IF i = 0 THEN <<Head(format)>> ELSE args[i])
            \o Substitute(Tail(format), args)

BoundTermFormat ==
  <<"Operation submitted in term ", "$0", " cannot be replicated in term ", "$1">>

\* ---------------------------------------------------------- CheckBoundTerm
CheckBoundTermNoUnboundTest(bound_term_, current_term) ==
  IF bound_term_ # current_term
    THEN [code |-> "Aborted",
          msg |-> Substitute(BoundTermFormat,
                             <<SimpleItoa(bound_term_), SimpleItoa(current_term)>>)]
    ELSE StatusOK

CheckBoundTermSameArgTwice(bound_term_, current_term) ==
  IF bound_term_ # kUnboundTerm /\ bound_term_ # current_term
    THEN [code |-> "Aborted",
          msg |-> Substitute(BoundTermFormat,
                             <<SimpleItoa(current_term), SimpleItoa(current_term)>>)]
    ELSE StatusOK

\* ConsensusRound::CheckBoundTerm, on the Round's bound_term_.
CheckBoundTerm(bound_term_, current_term) ==
  IF bound_term_ # kUnboundTerm /\ bound_term_ # current_term
    THEN [code |-> "Aborted",
          msg |-> Substitute(BoundTermFormat,
                             <<SimpleItoa(bound_term_), SimpleItoa(current_term)>>)]
    ELSE StatusOK

\* ------------------------------------------------------------- fault hooks
DefinedPoints ==
  { "PRE_START", "POST_START", "PRE_CONFIG_CHANGE", "POST_CONFIG_CHANGE",
    "PRE_REPLICATE", "POST_REPLICATE", "PRE_UPDATE", "POST_UPDATE",
    "PRE_SHUTDOWN", "POST_SHUTDOWN" }

\* A HookPoint value that is none of the enumerators.
UnknownPoints == {"UNKNOWN_POINT"}

HookPoints == DefinedPoints \cup UnknownPoints

\* The registries a test harness installs.
Registries == {"A", "B"}

\* What each hook of each registry returns: registry A fails pre-replicate
\* and post-shutdown and succeeds elsewhere, registry B fails every hook
\* with a status of its own.
HookResult(registry, hook) ==
  IF registry = "A"
    THEN CASE hook = "PreReplicate" -> [code |-> "IllegalState", msg |-> <<"injected">>]
           [] hook = "PostShutdown" -> [code |-> "IOError", msg |-> <<"disk full">>]
           [] OTHER -> StatusOK
    ELSE [code |-> "RuntimeError", msg |-> <<hook>>]

SwitchTargetReplicateSwapped(point) ==
  CASE point = "PRE_START" -> "PreStart"
    [] point = "POST_START" -> "PostStart"
    [] point = "PRE_CONFIG_CHANGE" -> "PreConfigChange"
    [] point = "POST_CONFIG_CHANGE" -> "PostConfigChange"
    [] point = "PRE_REPLICATE" -> "PostReplicate"
    [] point = "POST_REPLICATE" -> "PreReplicate"
    [] point = "PRE_UPDATE" -> "PreUpdate"
    [] point = "POST_UPDATE" -> "PostUpdate"
    [] point = "PRE_SHUTDOWN" -> "PreShutdown"
    [] point = "POST_SHUTDOWN" -> "PostShutdown"
    [] OTHER -> "LOG_FATAL"

SwitchTargetDefaultFallsThrough(point) ==
  CASE point = "PRE_START" -> "PreStart"
    [] point = "POST_START" -> "PostStart"
    [] point = "PRE_CONFIG_CHANGE" -> "PreConfigChange"
    [] point = "POST_CONFIG_CHANGE" -> "PostConfigChange"
    [] point = "PRE_REPLICATE" -> "PreReplicate"
    [] point = "POST_REPLICATE" -> "PostReplicate"
    [] point = "PRE_UPDATE" -> "PreUpdate"
    [] point = "POST_UPDATE" -> "PostUpdate"
    [] point = "PRE_SHUTDOWN" -> "PreShutdown"
    [] point = "POST_SHUTDOWN" -> "PostShutdown"
    [] OTHER -> "fall_through"

SwitchTargetPreReplicateAsPreUpdate(point) ==
  CASE point = "PRE_START" -> "PreStart"
    [] point = "POST_START" -> "PostStart"
    [] point = "PRE_CONFIG_CHANGE" -> "PreConfigChange"
    [] point = "POST_CONFIG_CHANGE" -> "PostConfigChange"
    [] point = "PRE_REPLICATE" -> "PreUpdate"
    [] point = "POST_REPLICATE" -> "PostReplicate"
    [] point = "PRE_UPDATE" -> "PreUpdate"
    [] point = "POST_UPDATE" -> "PostUpdate"
    [] point = "PRE_SHUTDOWN" -> "PreShutdown"
    [] point = "POST_SHUTDOWN" -> "PostShutdown"
    [] OTHER -> "LOG_FATAL"

\* The switch of Consensus::ExecuteHook: the hook a point selects; the
\* default case is LOG(FATAL).
SwitchTarget(point) ==
  CASE point = "PRE_START" -> "PreStart"
    [] point = "POST_START" -> "PostStart"
    [] point = "PRE_CONFIG_CHANGE" -> "PreConfigChange"
    [] point = "POST_CONFIG_CHANGE" -> "PostConfigChange"
    [] point = "PRE_REPLICATE" -> "PreReplicate"
    [] point = "POST_REPLICATE" -> "PostReplicate"
    [] point = "PRE_UPDATE" -> "PreUpdate"
    [] point = "POST_UPDATE" -> "PostUpdate"
    [] point = "PRE_SHUTDOWN" -> "PreShutdown"
    [] point = "POST_SHUTDOWN" -> "PostShutdown"
    [] OTHER -> "LOG_FATAL"

HooksInstalledAlways(hooks) == TRUE

\* The test of Consensus::ExecuteHook: fault_hooks_.get() != nullptr.
HooksInstalled(hooks) == hooks # Null

\* ------------------------------------------------------------------- state
VARIABLES
  rounds,        \* the Rounds created so far, in creation order
  history,       \* per Round: the term it was created in and the statuses
                 \* its callback was run with (not members of the code)
  current_term,  \* the Role's term, kept by the election layer
  fault_hooks_,  \* Consensus::fault_hooks_: a registry, or Null
  th,            \* per thread: the call it is in, its locals and its result
  process,       \* "running", or how the process ended
  bootstrap_info, \* the ConsensusBootstrapInfo made so far: none, or one
  lifecycle,     \* the Role's phase and what its lifecycle operations track
  seen           \* what callers passed and observed (not members of the code)

vars ==
  <<rounds, history, current_term, fault_hooks_, th, process,
    bootstrap_info, lifecycle, seen>>

RoundIds == 1 .. Len(rounds)

IdleThread ==
  [pc |-> "idle", op |-> "none", round |-> 0, status |-> NoStatus,
   raced |-> FALSE, stale |-> FALSE, term |-> 0, bound |-> 0, at |-> 0, point |-> "none",
   tested |-> Null, used |-> Null, invoked |-> <<>>, ret |-> NoStatus]

\* The Role before Start: no phase entered, no Round accepted, and no
\* lifecycle operation under way.
NoJob ==
  [op |-> "none", stage |-> "none", round |-> 0, found |-> Null, used |-> Null,
   acted |-> FALSE, result |-> NoStatus]

NoLifecycle ==
  [phase |-> "Uninitialized", accepted |-> {}, job |-> [t \in Threads |-> NoJob]]

NothingSeen == [installed |-> Null, recovered |-> FALSE, skipped |-> <<>>]

Init ==
  /\ rounds = <<>>
  /\ history = <<>>
  /\ current_term = 0
  /\ fault_hooks_ = Null
  /\ th = [t \in Threads |-> IdleThread]
  /\ process = "running"
  /\ bootstrap_info = <<>>
  /\ lifecycle = NoLifecycle
  /\ seen = NothingSeen

\* ------------------------------------------------------- Bootstrap Summary
\* MinimumOpId(): the sentinel below every id of the log.
MinimumOpId == [term |-> 0, index |-> 0]

\* The ids the log storage reports at startup.
LogOpIds ==
  {MinimumOpId, [term |-> 2, index |-> 9], [term |-> 3, index |-> 5],
   [term |-> 3, index |-> 7]}

\* The order of operation ids: by term, then by index.
OpIdLessOrEqual(a, b) ==
  \/ a.term < b.term
  \/ a.term = b.term /\ a.index <= b.index

ConsensusBootstrapInfoLastIdFromLog ==
  [last_id |-> [term |-> 3, index |-> 7], last_committed_id |-> MinimumOpId]

ConsensusBootstrapInfoCommittedFromLog ==
  [last_id |-> MinimumOpId, last_committed_id |-> [term |-> 3, index |-> 5]]

\* ConsensusBootstrapInfo::ConsensusBootstrapInfo(): the members it
\* initialises.
ConsensusBootstrapInfo ==
  [last_id |-> MinimumOpId, last_committed_id |-> MinimumOpId]

\* Startup recovery constructs the summary, before the Role is started.
NewBootstrapInfo ==
  /\ process = "running"
  /\ lifecycle.phase = "Uninitialized"
  /\ bootstrap_info = <<>>
  /\ bootstrap_info' = <<ConsensusBootstrapInfo>>
  /\ UNCHANGED <<rounds, history, current_term, fault_hooks_, th, process,
                 lifecycle, seen>>

\* Startup recovery writes what the log storage found into the summary it
\* constructed; seen.recovered keeps that it did.
Recover(last, committed) ==
  /\ process = "running"
  /\ lifecycle.phase = "Uninitialized"
  /\ Len(bootstrap_info) = 1
  /\ ~seen.recovered
  /\ OpIdLessOrEqual(committed, last)
  /\ bootstrap_info' = <<[last_id |-> last, last_committed_id |-> committed]>>
  /\ seen' = [seen EXCEPT !.recovered = TRUE]
  /\ UNCHANGED <<rounds, history, current_term, fault_hooks_, th, process,
                 lifecycle>>

\* ------------------------------------------------------------------ Rounds
ConsensusRoundCallbackDropped(consensus, replicate_msg, replicated_cb) ==
  [consensus_ |-> consensus, replicate_msg_ |-> replicate_msg,
   replicated_cb_ |-> Null, bound_term_ |-> kUnboundTerm]

\* ConsensusRound::ConsensusRound(consensus, replicate_msg, replicated_cb):
\* the members it initialises; bound_term_ keeps its default.
ConsensusRound(consensus, replicate_msg, replicated_cb) ==
  [consensus_ |-> consensus, replicate_msg_ |-> replicate_msg,
   replicated_cb_ |-> replicated_cb, bound_term_ |-> kUnboundTerm]

\* Consensus::NewRound.
NewRound(replicate_msg, replicated_cb) ==
  /\ process = "running"
  /\ Len(rounds) < MaxRounds
  /\ rounds' = Append(rounds, ConsensusRound("this", replicate_msg, replicated_cb))
  /\ history' = Append(history, [born |-> current_term, delivered |-> <<>>])
  /\ UNCHANGED <<current_term, fault_hooks_, th, process>>

\* ConsensusRound::ConsensusRound(consensus, replicate_msg): the members it
\* initialises; replicated_cb_ is left empty and bound_term_ keeps its
\* default.
ConsensusRoundNoCallback(consensus, replicate_msg) ==
  [consensus_ |-> consensus, replicate_msg_ |-> replicate_msg,
   replicated_cb_ |-> Null, bound_term_ |-> kUnboundTerm]

\* A Round made with the constructor that takes no callback. Its
\* DCHECK_NOTNULL(replicate_msg_.get()) ends the process in a build that
\* compiles DCHECKs in, and is nothing in one that compiles them out.
NewRoundNoCallback(replicate_msg, dcheck_is_on) ==
  /\ process = "running"
  /\ Len(rounds) < MaxRounds
  /\ IF replicate_msg = Null /\ dcheck_is_on
       THEN /\ process' = "fatal"
            /\ UNCHANGED <<rounds, history>>
       ELSE /\ rounds' = Append(rounds, ConsensusRoundNoCallback("this", replicate_msg))
            /\ history' = Append(history, [born |-> current_term, delivered |-> <<>>])
            /\ UNCHANGED process
  /\ UNCHANGED <<current_term, fault_hooks_, th>>

\* ConsensusRound::BindToTerm: the leader binds a Round it is about to
\* replicate to its term.
BindToTerm(r) ==
  /\ process = "running"
  /\ rounds[r].bound_term_ = kUnboundTerm
  /\ rounds' = [rounds EXCEPT ![r].bound_term_ = current_term]
  /\ UNCHANGED <<history, current_term, fault_hooks_, th, process>>

\* The election layer moves the Role to a later term.
AdvanceTerm(later) ==
  /\ process = "running"
  /\ later > current_term
  /\ current_term' = later
  /\ UNCHANGED <<rounds, history, fault_hooks_, th, process>>

CallCheckBoundTermRebinds(t, r, term) ==
  /\ process = "running"
  /\ th[t].pc = "idle"
  /\ th' = [th EXCEPT ![t] =
              [IdleThread EXCEPT !.pc = "done", !.op = "CheckBoundTerm",
                                 !.round = r, !.term = term,
                                 !.bound = rounds[r].bound_term_,
                                 !.at = current_term,
                                 !.ret = CheckBoundTerm(rounds[r].bound_term_, term)]]
  /\ rounds' = IF CheckBoundTerm(rounds[r].bound_term_, term) = StatusOK
                 THEN rounds
                 ELSE [rounds EXCEPT ![r].bound_term_ = term]
  /\ UNCHANGED <<history, current_term, fault_hooks_, process>>

\* A call of ConsensusRound::CheckBoundTerm by thread t.
CallCheckBoundTerm(t, r, term) ==
  /\ process = "running"
  /\ th[t].pc = "idle"
  /\ th' = [th EXCEPT ![t] =
              [IdleThread EXCEPT !.pc = "done", !.op = "CheckBoundTerm",
                                 !.round = r, !.term = term,
                                 !.bound = rounds[r].bound_term_,
                                 !.at = current_term,
                                 !.ret = CheckBoundTerm(rounds[r].bound_term_, term)]]
  /\ UNCHANGED <<rounds, history, current_term, fault_hooks_, process>>

RECURSIVE Delivered(_)
\* The number of times callbacks were run on the first n Rounds.
Delivered(n) == IF n = 0 THEN 0 ELSE Len(history[n].delivered) + Delivered(n - 1)

\* The threads that are between the test and the call of a Round's callback.
Notifying(r) == {u \in Threads : th[u].pc = "notify_invoke" /\ th[u].round = r}

NotifyTestSkipsTheTest(t, r, status) ==
  /\ process = "running"
  /\ th[t].pc = "idle"
  /\ Delivered(Len(rounds))
       + Cardinality({u \in Threads : th[u].pc = "notify_invoke"}) < MaxNotify
  /\ th' = [th EXCEPT ![t] =
              [IdleThread EXCEPT !.pc = "notify_invoke",
                                 !.op = "NotifyReplicationFinished",
                                 !.round = r, !.status = status]]
  /\ UNCHANGED <<rounds, history, current_term, fault_hooks_, process>>

\* ConsensusRound::NotifyReplicationFinished, its test of replicated_cb_:
\* with an empty slot the call returns, otherwise it goes on to the call.
NotifyTest(t, r, status) ==
  /\ process = "running"
  /\ th[t].pc = "idle"
  /\ IF rounds[r].replicated_cb_ = Null
       THEN UNCHANGED th
       ELSE /\ Delivered(Len(rounds))
                 + Cardinality({u \in Threads : th[u].pc = "notify_invoke"}) < MaxNotify
            /\ th' = [u \in Threads |->
                        IF u = t
                          THEN [IdleThread EXCEPT
                                  !.pc = "notify_invoke",
                                  !.op = "NotifyReplicationFinished",
                                  !.round = r, !.status = status,
                                  !.stale = rounds[r].bound_term_
                                              \notin {kUnboundTerm, current_term},
                                  !.raced = Notifying(r) # {}]
                          ELSE IF u \in Notifying(r)
                                 THEN [th[u] EXCEPT !.raced = TRUE]
                                 ELSE th[u]]
  /\ UNCHANGED <<rounds, history, current_term, fault_hooks_, process>>

NotifyInvokeWithOK(t) ==
  /\ process = "running"
  /\ th[t].pc = "notify_invoke"
  /\ history' = [history EXCEPT ![th[t].round].delivered = Append(@, StatusOK)]
  /\ th' = [th EXCEPT ![t] = IdleThread]
  /\ UNCHANGED <<rounds, current_term, fault_hooks_, process>>

NotifyInvokeWithoutCallback(t) ==
  /\ process = "running"
  /\ th[t].pc = "notify_invoke"
  /\ th' = [th EXCEPT ![t] = IdleThread]
  /\ UNCHANGED <<rounds, history, current_term, fault_hooks_, process>>

\* ConsensusRound::NotifyReplicationFinished, replicated_cb_(status): the
\* callback runs in the calling thread and the call returns; the slot is
\* left as it is.
NotifyInvoke(t) ==
  /\ process = "running"
  /\ th[t].pc = "notify_invoke"
  /\ history' = [history EXCEPT
                   ![th[t].round].delivered = Append(@, th[t].status)]
  /\ th' = [th EXCEPT ![t] = IdleThread]
  /\ UNCHANGED <<rounds, current_term, fault_hooks_, process>>

\* ------------------------------------------------------------- fault hooks
SetFaultHooksKeepsInstalled(hooks) ==
  /\ process = "running"
  /\ fault_hooks_' = IF fault_hooks_ = Null THEN hooks ELSE fault_hooks_
  /\ UNCHANGED <<rounds, history, current_term, th, process>>

\* Consensus::SetFaultHooks.
SetFaultHooks(hooks) ==
  /\ process = "running"
  /\ fault_hooks_' = hooks
  /\ UNCHANGED <<rounds, history, current_term, th, process>>

\* A call of Consensus::GetFaultHooks by thread t: the caller takes a copy
\* of the registry pointer the returned reference names.
CallGetFaultHooks(t) ==
  /\ process = "running"
  /\ th[t].pc = "idle"
  /\ th' = [th EXCEPT ![t] =
              [IdleThread EXCEPT !.pc = "done", !.op = "GetFaultHooks",
                                 !.used = fault_hooks_]]
  /\ UNCHANGED <<rounds, history, current_term, fault_hooks_, process>>

\* Consensus::ExecuteHook up to the switch: the test reads fault_hooks_; with
\* no registry the call returns OK, with one the switch selects the case.
ExecuteHookTest(t, point) ==
  /\ process = "running"
  /\ th[t].pc = "idle"
  /\ LET call == [IdleThread EXCEPT !.op = "ExecuteHook", !.point = point,
                                    !.tested = fault_hooks_]
     IN IF ~HooksInstalled(fault_hooks_)
          THEN /\ th' = [th EXCEPT ![t] = [call EXCEPT !.pc = "done", !.ret = StatusOK]]
               /\ UNCHANGED process
          ELSE CASE SwitchTarget(point) = "LOG_FATAL" ->
                      /\ th' = [th EXCEPT ![t] = [call EXCEPT !.pc = "fatal"]]
                      /\ process' = "fatal"
                 [] SwitchTarget(point) = "fall_through" ->
                      /\ th' = [th EXCEPT ![t] = [call EXCEPT !.pc = "done", !.ret = StatusOK]]
                      /\ UNCHANGED process
                 [] OTHER ->
                      /\ th' = [th EXCEPT ![t] = [call EXCEPT !.pc = "hook_call"]]
                      /\ UNCHANGED process
  /\ UNCHANGED <<rounds, history, current_term, fault_hooks_>>

\* Consensus::ExecuteHook, return fault_hooks_->Hook(): the member is read
\* again with no lock held, or the value the test loaded is used again,
\* as the build chooses; calling through a null pointer ends the process.
ExecuteHookCall(t, hooks) ==
  /\ process = "running"
  /\ th[t].pc = "hook_call"
  /\ hooks \in {fault_hooks_, th[t].tested}
  /\ IF hooks = Null
       THEN /\ th' = [th EXCEPT ![t].pc = "segv"]
            /\ process' = "segv"
       ELSE /\ th' = [th EXCEPT
                        ![t].pc = "done",
                        ![t].used = hooks,
                        ![t].invoked = Append(@, <<hooks, SwitchTarget(th[t].point)>>),
                        ![t].ret = HookResult(hooks, SwitchTarget(th[t].point))]
            /\ UNCHANGED process
  /\ UNCHANGED <<rounds, history, current_term, fault_hooks_>>

\* The caller takes the result; the thread is free for its next call.
Return(t) ==
  /\ process = "running"
  /\ th[t].pc = "done"
  /\ th' = [th EXCEPT ![t] = IdleThread]
  /\ UNCHANGED <<rounds, history, current_term, fault_hooks_, process>>

\* --------------------------------------------------------------- lifecycle
\* The lifecycle operations of the Role: each brackets its transition with
\* ExecuteHook(pre point) and ExecuteHook(post point), and a failure of the
\* pre hook is returned in place of the transition. lifecycle.job[t] is
\* where thread t is in the operation it runs: in the pre hook ("pre"), at
\* the transition ("act", for Shutdown then "drain"), past it ("acted"), in
\* the post hook ("post"), or back with its result ("returned").
LifecycleOps == {"Start", "Replicate", "Shutdown"}

PrePoint(op) ==
  CASE op = "Start" -> "PRE_START"
    [] op = "Replicate" -> "PRE_REPLICATE"
    [] op = "Shutdown" -> "PRE_SHUTDOWN"

PostPoint(op) ==
  CASE op = "Start" -> "POST_START"
    [] op = "Replicate" -> "POST_REPLICATE"
    [] op = "Shutdown" -> "POST_SHUTDOWN"

\* What an operation returns when the Role is not in the phase it needs, and
\* what Shutdown resolves the Rounds in flight with.
NotRunning == [code |-> "IllegalState", msg |-> <<"not running">>]

ShutdownStatus == [code |-> "Aborted", msg |-> <<"shutting down">>]

Free(t) == lifecycle.job[t].op = "none"

\* The Rounds in flight: accepted for replication, with a callback that has
\* not run.
InFlight(r) ==
  /\ r \in lifecycle.accepted
  /\ rounds[r].replicated_cb_ # Null
  /\ history[r].delivered = <<>>

\* Thread t enters a lifecycle operation and calls ExecuteHook(pre point).
LifecycleBegin(t, op, r) ==
  /\ Free(t)
  /\ CASE op = "Start" -> r = 0 /\ lifecycle.phase = "Uninitialized"
       [] op = "Replicate" -> r \in RoundIds \ lifecycle.accepted
       [] op = "Shutdown" -> r = 0 /\ lifecycle.phase = "Running"
  /\ ExecuteHookTest(t, PrePoint(op))
  /\ lifecycle' = [lifecycle EXCEPT
                     !.job[t] = [NoJob EXCEPT !.op = op, !.stage = "pre",
                                              !.round = r, !.found = fault_hooks_]]
  /\ UNCHANGED <<bootstrap_info, seen>>

\* The pre hook's status is back: a failure is the operation's result.
AfterPreHook(t) ==
  /\ lifecycle.job[t].stage = "pre"
  /\ Return(t)
  /\ lifecycle' = [lifecycle EXCEPT
                     !.job[t].used = th[t].used,
                     !.job[t].stage = IF th[t].ret = StatusOK THEN "act" ELSE "returned",
                     !.job[t].result = IF th[t].ret = StatusOK THEN NoStatus ELSE th[t].ret]
  /\ UNCHANGED <<bootstrap_info, seen>>

\* Start: the Role takes its term from the Bootstrap Summary, when there is
\* one, and is Running.
StartAct(t) ==
  /\ process = "running"
  /\ lifecycle.job[t].op = "Start" /\ lifecycle.job[t].stage = "act"
  /\ IF lifecycle.phase = "Uninitialized"
       THEN /\ lifecycle' = [lifecycle EXCEPT !.phase = "Running",
                                               !.job[t].stage = "acted",
                                               !.job[t].acted = TRUE]
            /\ current_term' = IF bootstrap_info = <<>> THEN current_term
                                ELSE bootstrap_info[1].last_id.term
       ELSE /\ lifecycle' = [lifecycle EXCEPT !.job[t].stage = "returned",
                                               !.job[t].result = NotRunning]
            /\ UNCHANGED current_term
  /\ UNCHANGED <<rounds, history, fault_hooks_, th, process, bootstrap_info, seen>>

\* Replicate: a Running Role accepts the Round for replication.
ReplicateAct(t) ==
  /\ process = "running"
  /\ lifecycle.job[t].op = "Replicate" /\ lifecycle.job[t].stage = "act"
  /\ IF lifecycle.phase = "Running"
       THEN lifecycle' = [lifecycle EXCEPT
                            !.accepted = @ \cup {lifecycle.job[t].round},
                            !.job[t].stage = "acted",
                            !.job[t].acted = TRUE]
       ELSE lifecycle' = [lifecycle EXCEPT !.job[t].stage = "returned",
                                           !.job[t].result = NotRunning]
  /\ UNCHANGED <<rounds, history, current_term, fault_hooks_, th, process,
                 bootstrap_info, seen>>

\* Shutdown: the Role is ShuttingDown and goes through the Rounds it has.
ShutdownAct(t) ==
  /\ process = "running"
  /\ lifecycle.job[t].op = "Shutdown" /\ lifecycle.job[t].stage = "act"
  /\ IF lifecycle.phase = "Running"
       THEN lifecycle' = [lifecycle EXCEPT !.phase = "ShuttingDown",
                                           !.job[t].stage = "drain",
                                           !.job[t].round = 1,
                                           !.job[t].acted = TRUE]
       ELSE lifecycle' = [lifecycle EXCEPT !.job[t].stage = "returned",
                                           !.job[t].result = NotRunning]
  /\ UNCHANGED <<rounds, history, current_term, fault_hooks_, th, process,
                 bootstrap_info, seen>>

\* Shutdown, the next Round: one in flight is resolved by
\* NotifyReplicationFinished(ShutdownStatus).
ShutdownDrain(t) ==
  /\ lifecycle.job[t].op = "Shutdown" /\ lifecycle.job[t].stage = "drain"
  /\ th[t].pc = "idle"
  /\ lifecycle.job[t].round \in RoundIds
  /\ IF InFlight(lifecycle.job[t].round)
       THEN NotifyTest(t, lifecycle.job[t].round, ShutdownStatus)
       ELSE /\ process = "running"
            /\ UNCHANGED <<rounds, history, current_term, fault_hooks_, th, process>>
  /\ lifecycle' = [lifecycle EXCEPT !.job[t].round = @ + 1]
  /\ UNCHANGED <<bootstrap_info, seen>>

\* Shutdown, past the last Round: the Role is Stopped.
ShutdownStop(t) ==
  /\ process = "running"
  /\ lifecycle.job[t].op = "Shutdown" /\ lifecycle.job[t].stage = "drain"
  /\ th[t].pc = "idle"
  /\ lifecycle.job[t].round \notin RoundIds
  /\ lifecycle' = [lifecycle EXCEPT !.phase = "Stopped", !.job[t].stage = "acted"]
  /\ UNCHANGED <<rounds, history, current_term, fault_hooks_, th, process,
                 bootstrap_info, seen>>

\* Past the transition, the operation calls ExecuteHook(post point).
PostHook(t) ==
  /\ lifecycle.job[t].stage = "acted"
  /\ ExecuteHookTest(t, PostPoint(lifecycle.job[t].op))
  /\ lifecycle' = [lifecycle EXCEPT !.job[t].stage = "post"]
  /\ UNCHANGED <<bootstrap_info, seen>>

\* The post hook's status is the operation's result.
AfterPostHook(t) ==
  /\ lifecycle.job[t].stage = "post"
  /\ Return(t)
  /\ lifecycle' = [lifecycle EXCEPT !.job[t].stage = "returned",
                                    !.job[t].result = th[t].ret]
  /\ UNCHANGED <<bootstrap_info, seen>>

\* The caller of the lifecycle operation takes its result.
LifecycleReturn(t) ==
  /\ process = "running"
  /\ lifecycle.job[t].stage = "returned"
  /\ lifecycle' = [lifecycle EXCEPT !.job[t] = NoJob]
  /\ UNCHANGED <<rounds, history, current_term, fault_hooks_, th, process,
                 bootstrap_info, seen>>

\* ---------------------------------------------------------- specifications
\* The members of a Round and the Role's term on one side, fault_hooks_ on
\* the other: no operation on one side reads or writes the other side.
\* SpecTerm runs the term checks on Rounds, SpecNotify the completion of
\* Rounds, SpecHooks the registry and its dispatch next to NewRound, and
\* Spec all the operations together.
\* The members none of the operations above reads or writes.
Quiet == UNCHANGED <<bootstrap_info, lifecycle, seen>>

\* A caller of SetFaultHooks; seen.installed keeps what it passed.
CallSetFaultHooks(hooks) ==
  /\ SetFaultHooks(hooks)
  /\ seen' = [seen EXCEPT !.installed = hooks]
  /\ UNCHANGED <<bootstrap_info, lifecycle>>

NextTerm ==
  \/ \E m \in Msgs, cb \in Callbacks : NewRound(m, cb) /\ Quiet
  \/ \E r \in RoundIds : BindToTerm(r) /\ Quiet
  \/ \E later \in Terms : AdvanceTerm(later) /\ Quiet
  \/ \E t \in Threads, r \in RoundIds, term \in TermArgs :
       CallCheckBoundTerm(t, r, term) /\ Quiet
  \/ \E t \in Threads : Return(t) /\ Quiet

NextNotify ==
  \/ \E m \in Msgs, cb \in Callbacks \cup {Null} : NewRound(m, cb) /\ Quiet
  \/ \E r \in RoundIds : BindToTerm(r) /\ Quiet
  \/ \E later \in Terms : AdvanceTerm(later) /\ Quiet
  \/ \E t \in Threads, r \in RoundIds, s \in NotifyStatuses :
       NotifyTest(t, r, s) /\ Quiet
  \/ \E t \in Threads : NotifyInvoke(t) /\ Quiet

NextHooks ==
  \/ \E m \in Msgs, cb \in Callbacks \cup {Null} : NewRound(m, cb) /\ Quiet
  \/ \E hooks \in Registries \cup {Null} : CallSetFaultHooks(hooks)
  \/ \E t \in Threads : CallGetFaultHooks(t) /\ Quiet
  \/ \E t \in Threads, point \in HookPoints : ExecuteHookTest(t, point) /\ Quiet
  \/ \E t \in Threads, hooks \in Registries \cup {Null} :
       ExecuteHookCall(t, hooks) /\ Quiet
  \/ \E t \in Threads : Return(t) /\ Quiet

\* SpecReplicate and SpecShutdown run the lifecycle operations of the Role
\* over the operations of this file: proposers create Rounds and submit
\* them; in SpecReplicate a test harness installs registries, in
\* SpecShutdown the transport resolves the Rounds the Role accepted.
NextReplicate ==
  \/ \E m \in Msgs, cb \in Callbacks : NewRound(m, cb) /\ Quiet
  \/ \E hooks \in Registries \cup {Null} : CallSetFaultHooks(hooks)
  \/ \E t \in Threads, op \in {"Start", "Replicate"}, r \in {0} \cup RoundIds :
       LifecycleBegin(t, op, r)
  \/ \E t \in Threads, hooks \in Registries \cup {Null} :
       ExecuteHookCall(t, hooks) /\ Quiet
  \/ \E t \in Threads : AfterPreHook(t)
  \/ \E t \in Threads : StartAct(t)
  \/ \E t \in Threads : ReplicateAct(t)
  \/ \E t \in Threads : PostHook(t)
  \/ \E t \in Threads : AfterPostHook(t)
  \/ \E t \in Threads : LifecycleReturn(t)

NextShutdown ==
  \/ \E m \in Msgs, cb \in Callbacks \cup {Null} : NewRound(m, cb) /\ Quiet
  \/ \E t \in Threads, op \in LifecycleOps, r \in {0} \cup RoundIds :
       LifecycleBegin(t, op, r)
  \/ \E t \in Threads : AfterPreHook(t)
  \/ \E t \in Threads : StartAct(t)
  \/ \E t \in Threads : ReplicateAct(t)
  \/ \E t \in Threads : ShutdownAct(t)
  \/ \E t \in Threads : ShutdownDrain(t)
  \/ \E t \in Threads : ShutdownStop(t)
  \/ \E t \in Threads : PostHook(t)
  \/ \E t \in Threads : AfterPostHook(t)
  \/ \E t \in Threads : LifecycleReturn(t)
  \/ \E t \in Threads, r \in RoundIds, s \in NotifyStatuses :
       Free(t) /\ r \in lifecycle.accepted /\ NotifyTest(t, r, s) /\ Quiet
  \/ \E t \in Threads : NotifyInvoke(t) /\ Quiet

\* SpecBootstrap runs startup: recovery makes the Bootstrap Summary, the
\* Role is started from it, and once it is Running Rounds are created and
\* operated on.
NextBootstrap ==
  \/ NewBootstrapInfo
  \/ \E last, committed \in LogOpIds : Recover(last, committed)
  \/ \E t \in Threads : LifecycleBegin(t, "Start", 0)
  \/ \E t \in Threads : AfterPreHook(t)
  \/ \E t \in Threads : StartAct(t)
  \/ \E t \in Threads : PostHook(t)
  \/ \E t \in Threads : AfterPostHook(t)
  \/ \E t \in Threads : LifecycleReturn(t)
  \/ \E m \in Msgs, cb \in Callbacks :
       lifecycle.phase = "Running" /\ NewRound(m, cb) /\ Quiet
  \/ \E r \in RoundIds : BindToTerm(r) /\ Quiet
  \/ \E t \in Threads, r \in RoundIds, s \in NotifyStatuses :
       Free(t) /\ NotifyTest(t, r, s) /\ Quiet
  \/ \E t \in Threads : NotifyInvoke(t) /\ Quiet

\* SpecCreate makes Rounds with both constructors, with and without an
\* operation and a callback, and completes them; seen.skipped keeps the
\* NotifyReplicationFinished calls made on Rounds with an empty slot.
CallNotifyTest(t, r, status) ==
  /\ rounds[r].replicated_cb_ = Null => Len(seen.skipped) < MaxNotify
  /\ NotifyTest(t, r, status)
  /\ seen' = IF rounds[r].replicated_cb_ = Null
               THEN [seen EXCEPT !.skipped = Append(@, [round |-> r, status |-> status])]
               ELSE seen
  /\ UNCHANGED <<bootstrap_info, lifecycle>>

NextCreate ==
  \/ \E m \in Msgs \cup {Null}, cb \in Callbacks \cup {Null} : NewRound(m, cb) /\ Quiet
  \/ \E m \in Msgs \cup {Null}, dcheck_is_on \in BOOLEAN :
       NewRoundNoCallback(m, dcheck_is_on) /\ Quiet
  \/ \E t \in Threads, r \in RoundIds, s \in NotifyStatuses : CallNotifyTest(t, r, s)
  \/ \E t \in Threads : NotifyInvoke(t) /\ Quiet

Next ==
  \/ \E m \in Msgs \cup {Null}, cb \in Callbacks \cup {Null} : NewRound(m, cb) /\ Quiet
  \/ NextTerm
  \/ NextNotify
  \/ NextHooks
  \/ NextCreate
  \/ NextBootstrap
  \/ NextReplicate
  \/ NextShutdown

SpecTerm == Init /\ [][NextTerm]_vars

SpecNotify == Init /\ [][NextNotify]_vars

SpecHooks == Init /\ [][NextHooks]_vars

SpecCreate == Init /\ [][NextCreate]_vars

SpecBootstrap == Init /\ [][NextBootstrap]_vars

SpecReplicate == Init /\ [][NextReplicate]_vars

SpecShutdown == Init /\ [][NextShutdown]_vars

Spec == Init /\ [][Next]_vars

\* ------------------------------------------------------ reading a message
\* The numbers a message names: the value of each maximal run of number
\* characters in it.
NumChars == {"-"} \cup {DigitChars[d] : d \in 1 .. 10}

DigitValue(c) == CHOOSE d \in 0 .. 9 : DigitChars[d + 1] = c

RECURSIVE NatValue(_)
NatValue(s) ==
  IF s = <<>> THEN 0
  ELSE NatValue(SubSeq(s, 1, Len(s) - 1)) * 10 + DigitValue(s[Len(s)])

NumValue(s) == IF Head(s) = "-" THEN 0 - NatValue(Tail(s)) ELSE NatValue(s)

NumberRuns(m) ==
  { run \in (1 .. Len(m)) \X (1 .. Len(m)) :
      /\ run[1] <= run[2]
      /\ \A k \in run[1] .. run[2] : m[k] \in NumChars
      /\ run[1] = 1 \/ m[run[1] - 1] \notin NumChars
      /\ run[2] = Len(m) \/ m[run[2] + 1] \notin NumChars }

NumbersNamed(m) == {NumValue(SubSeq(m, run[1], run[2])) : run \in NumberRuns(m)}

\* The calls of CheckBoundTerm that have returned and whose result the
\* caller still holds: th[t].bound is the Round's bound_term_ when the call
\* was made, and th[t].at the Role's term then.
CheckedBy(t) == th[t].pc = "done" /\ th[t].op = "CheckBoundTerm"

\* ------------------------------------------------------------------ claims
\* C3: on a Round bound to term T, CheckBoundTerm(current_term) returns OK
\* when current_term = T, and otherwise returns (the process keeps running)
\* an Aborted status whose message names both T and current_term.
C3_BoundTermChecked ==
  \A t \in Threads :
    (CheckedBy(t) /\ th[t].bound # kUnboundTerm) =>
      IF th[t].term = th[t].bound
        THEN th[t].ret = StatusOK
        ELSE /\ th[t].ret.code = "Aborted"
             /\ process = "running"
             /\ th[t].bound \in NumbersNamed(th[t].ret.msg)
             /\ th[t].term \in NumbersNamed(th[t].ret.msg)

\* A Round bound to a term was checked against that term by one thread and
\* against a later, two-digit term by the other.
C3_Witness ==
  \E t, u \in Threads :
    /\ CheckedBy(t) /\ th[t].bound # kUnboundTerm /\ th[t].term = th[t].bound
    /\ CheckedBy(u) /\ th[u].bound # kUnboundTerm /\ th[u].term = HighTerm
    /\ th[u].ret.code = "Aborted"

\* C4: on a Round with no bound term, CheckBoundTerm(current_term) returns
\* OK for every current_term.
C4_UnboundAlwaysOK ==
  \A t \in Threads :
    (CheckedBy(t) /\ th[t].bound = kUnboundTerm) => th[t].ret = StatusOK

\* A Round with no bound term was checked against a term that is not the
\* Role's.
C4_Witness ==
  \E t \in Threads :
    /\ CheckedBy(t) /\ th[t].bound = kUnboundTerm
    /\ th[t].term # current_term /\ th[t].term >= 0
    /\ th[t].ret = StatusOK

\* C5: a Round made by NewRound is bound to the Role's term at creation:
\* once the Role is in another term, CheckBoundTerm(the Role's term) on
\* that Round is Aborted.
C5_NewRoundBindsTerm ==
  \A t \in Threads :
    (/\ CheckedBy(t)
     /\ th[t].term = th[t].at
     /\ history[th[t].round].born # th[t].at) =>
      th[t].ret.code = "Aborted"

\* A step in which thread t runs the callback of Round r; th[t].stale tells
\* whether the Round was bound to another term than the Role's when the
\* call began, th[t].raced whether the call overlaps another on the Round.
Delivers(t, r) ==
  /\ th[t].pc = "notify_invoke"
  /\ th[t].round = r
  /\ th'[t].pc = "idle"

\* C1: whatever NotifyReplicationFinished calls are made on a Round created
\* with a callback, the callback is run once, by the first call: a call
\* that overlaps no other runs the callback only if no call ran it before.
C1_CallbackRunOnce ==
  [][\A t \in Threads : \A r \in RoundIds :
       (Delivers(t, r) /\ ~th[t].raced) =>
         history[r].delivered = <<>>]_vars

\* C2: a Round bound to term T that is resolved while the Role is in
\* another term (from the start of the call to the run of the callback)
\* has its callback run with an Aborted status, never with success.
C2_AbortedUnderOtherTerm ==
  [][\A t \in Threads : \A r \in RoundIds :
       (/\ Delivers(t, r)
        /\ th[t].stale
        /\ rounds[r].bound_term_ \notin {kUnboundTerm, current_term}) =>
         th[t].status.code = "Aborted"]_vars

\* C6: when the calls of two threads on one Round overlap, only the first
\* has effect: the callback has been run once when either call returns.
C6_RacingCallsRunCallbackOnce ==
  [][\A t \in Threads : \A r \in RoundIds :
       (Delivers(t, r) /\ th[t].raced) =>
         history'[r].delivered = <<th[t].status>>]_vars

\* The calls of ExecuteHook that have passed the test of fault_hooks_:
\* th[t].tested is the registry the test saw, th[t].used the registry whose
\* hook was called.
Dispatching(t) == th[t].op = "ExecuteHook" /\ th[t].tested # Null

\* C7: a call of ExecuteHook sees one registry throughout: the registry
\* whose hook it calls is the registry it tested, and it never calls
\* through a null registry.
C7_OneRegistryPerCall ==
  \A t \in Threads :
    (Dispatching(t) /\ th[t].point \in DefinedPoints /\ th[t].pc \in {"done", "segv"}) =>
      /\ th[t].pc = "done"
      /\ th[t].used = th[t].tested

\* C8 as stated: ExecuteHook with a point that is none of the ten ends in
\* the fatal outcome and returns no status, with or without a registry.
C8_UnknownPointAlwaysFatal ==
  \A t \in Threads :
    (th[t].op = "ExecuteHook" /\ th[t].point \in UnknownPoints) =>
      /\ th[t].pc = "fatal"
      /\ process = "fatal"
      /\ th[t].ret = NoStatus

\* C8 amended: ExecuteHook with a point that is none of the ten ends in the
\* fatal outcome and returns no status when it finds a registry installed;
\* when it finds none it returns OK.
C8_UnknownPointFatalWhenInstalled ==
  \A t \in Threads :
    (th[t].op = "ExecuteHook" /\ th[t].point \in UnknownPoints) =>
      IF th[t].tested # Null
        THEN th[t].pc = "fatal" /\ process = "fatal" /\ th[t].ret = NoStatus
        ELSE th[t].pc = "done" /\ th[t].ret = StatusOK

\* A call with an unknown point found a registry and ended the process.
C8_Witness ==
  \E t \in Threads :
    /\ Dispatching(t) /\ th[t].point \in UnknownPoints
    /\ th[t].pc = "fatal" /\ process = "fatal"

\* The hook each lifecycle point names.
HookOfPoint ==
  [ PRE_START |-> "PreStart", POST_START |-> "PostStart",
    PRE_CONFIG_CHANGE |-> "PreConfigChange",
    POST_CONFIG_CHANGE |-> "PostConfigChange",
    PRE_REPLICATE |-> "PreReplicate", POST_REPLICATE |-> "PostReplicate",
    PRE_UPDATE |-> "PreUpdate", POST_UPDATE |-> "PostUpdate",
    PRE_SHUTDOWN |-> "PreShutdown", POST_SHUTDOWN |-> "PostShutdown" ]

\* C9: with a registry installed, ExecuteHook(point) for each of the ten
\* points calls the hook that point names, once, and no other hook, and
\* returns the status of that hook as it is.
C9_DispatchesNamedHook ==
  \A t \in Threads :
    (Dispatching(t) /\ th[t].point \in DefinedPoints /\ th[t].pc = "done") =>
      /\ th[t].used \in Registries
      /\ th[t].invoked = << <<th[t].used, HookOfPoint[th[t].point]>> >>
      /\ th[t].ret = HookResult(th[t].used, HookOfPoint[th[t].point])

\* Both threads have dispatched: one got the failure of post-shutdown, the
\* other the success of a hook of the same registry.
C9_Witness ==
  \E t, u \in Threads :
    /\ Dispatching(t) /\ th[t].pc = "done" /\ th[t].point = "POST_SHUTDOWN"
    /\ th[t].ret = [code |-> "IOError", msg |-> <<"disk full">>]
    /\ Dispatching(u) /\ th[u].pc = "done" /\ th[u].point = "PRE_START"
    /\ th[u].ret = StatusOK

\* The calls of ExecuteHook on one of the ten points that found no registry.
FoundNoRegistry(t) ==
  /\ th[t].op = "ExecuteHook"
  /\ th[t].point \in DefinedPoints
  /\ th[t].tested = Null

\* C10: with no registry installed, ExecuteHook(point) returns OK for each
\* of the ten points, calls no hook, and leaves the registry, the Rounds,
\* the term and the other threads as they were.
C10_NoRegistryNoEffect ==
  /\ [](\A t \in Threads :
          FoundNoRegistry(t) =>
            th[t].pc = "done" /\ th[t].ret = StatusOK /\ th[t].invoked = <<>>)
  /\ [][\A t \in Threads :
          (th[t].pc = "idle" /\ FoundNoRegistry(t)') =>
            /\ UNCHANGED <<rounds, history, current_term, fault_hooks_, process>>
            /\ \A u \in Threads \ {t} : th'[u] = th[u]]_vars

\* A call found no registry and returned OK while Rounds exist.
C10_Witness ==
  \E t \in Threads :
    /\ FoundNoRegistry(t) /\ th[t].pc = "done" /\ th[t].ret = StatusOK
    /\ rounds # <<>>
    /\ fault_hooks_ = Null

\* C11: after any sequence of SetFaultHooks calls the registry in force is
\* the one the most recent call passed (none if it passed none, or if there
\* was no call): GetFaultHooks returns it, an ExecuteHook call that starts
\* then finds it, and, when it is still the most recent one at the dispatch,
\* dispatches to it and to no earlier registry.
C11_LatestRegistryInForce ==
  /\ [](fault_hooks_ = seen.installed)
  /\ [][\A t \in Threads :
          /\ (th[t].pc = "idle" /\ th'[t].op = "GetFaultHooks")
               => th'[t].used = seen.installed
          /\ (th[t].pc = "idle" /\ th'[t].op = "ExecuteHook")
               => th'[t].tested = seen.installed
          /\ (th[t].pc = "hook_call" /\ th'[t].pc = "done"
                /\ th[t].tested = seen.installed)
               => /\ th'[t].used = seen.installed
                  /\ \A k \in 1 .. Len(th'[t].invoked) :
                       th'[t].invoked[k][1] = seen.installed]_vars

\* Registry "A" was dispatched to, then "B" replaced it and GetFaultHooks
\* returned "B".
C11_Witness ==
  \E t, u \in Threads :
    /\ th[t].pc = "done" /\ th[t].op = "GetFaultHooks" /\ th[t].used = "B"
    /\ th[u].pc = "done" /\ th[u].op = "ExecuteHook" /\ th[u].used = "A"
    /\ seen.installed = "B"

\* C12: a Bootstrap Summary as its constructor leaves it, before recovery
\* has written anything into it, has last_id and last_committed_id both
\* equal to the minimum operation id.
C12_FreshSummaryAtMinimum ==
  (Len(bootstrap_info) = 1 /\ ~seen.recovered)
    => /\ bootstrap_info[1].last_id = MinimumOpId
       /\ bootstrap_info[1].last_committed_id = MinimumOpId

\* A summary was constructed and the Role started from it as it was.
C12_Witness ==
  /\ Len(bootstrap_info) = 1
  /\ ~seen.recovered
  /\ lifecycle.phase = "Running"

\* C13: every Bootstrap Summary has last_committed_id <= last_id in the
\* order of operation ids, and no step that changes the Role, a Round or a
\* thread's call changes a summary that exists.
C13_SummaryOrderedAndKept ==
  /\ [](\A k \in 1 .. Len(bootstrap_info) :
          OpIdLessOrEqual(bootstrap_info[k].last_committed_id,
                          bootstrap_info[k].last_id))
  /\ [][(/\ bootstrap_info # <<>>
         /\ <<rounds, history, current_term, fault_hooks_, th, process, lifecycle>>'
              # <<rounds, history, current_term, fault_hooks_, th, process, lifecycle>>)
          => bootstrap_info' = bootstrap_info]_vars

\* Recovery found last_id (3,7) and last_committed_id (3,5); the Role
\* started from the summary and a Round's callback has run since.
C13_Witness ==
  /\ bootstrap_info =
       <<[last_id |-> [term |-> 3, index |-> 7],
          last_committed_id |-> [term |-> 3, index |-> 5]]>>
  /\ lifecycle.phase = "Running"
  /\ \E r \in RoundIds : history[r].delivered # <<>>

C15_PreReplicateFailureShortCircuits ==
  \A t \in Threads :
    (/\ lifecycle.job[t].op = "Replicate"
     /\ lifecycle.job[t].stage # "pre"
     /\ lifecycle.job[t].used # Null
     /\ HookResult(lifecycle.job[t].used, "PreReplicate") # StatusOK)
      => /\ lifecycle.job[t].stage = "returned"
         /\ ~lifecycle.job[t].acted
         /\ lifecycle.job[t].result = HookResult(lifecycle.job[t].used, "PreReplicate")

\* With registry "A" installed in a Running Role, a Replicate came back
\* with the failure of A's pre_replicate hook and its Round not accepted.
C15_Witness ==
  \E t \in Threads :
    /\ lifecycle.phase = "Running"
    /\ lifecycle.job[t].op = "Replicate"
    /\ lifecycle.job[t].stage = "returned"
    /\ lifecycle.job[t].used = "A"
    /\ lifecycle.job[t].result = [code |-> "IllegalState", msg |-> <<"injected">>]
    /\ lifecycle.job[t].round \notin lifecycle.accepted

\* C16: on a Round whose callback slot is empty, NotifyReplicationFinished
\* returns having run nothing, ended nothing and changed nothing, for every
\* status and every further call; such a Round never has a callback run.
C16_EmptySlotNoEffect ==
  /\ [](\A r \in RoundIds :
          rounds[r].replicated_cb_ = Null => history[r].delivered = <<>>)
  /\ [][Len(seen.skipped') > Len(seen.skipped)
          => UNCHANGED <<rounds, history, current_term, fault_hooks_, th, process>>]_vars

\* NotifyReplicationFinished returned twice on one Round with an empty
\* slot, once with OK and once with a failure.
C16_Witness ==
  /\ process = "running"
  /\ \E j, k \in 1 .. Len(seen.skipped) :
       /\ seen.skipped[j].round = seen.skipped[k].round
       /\ seen.skipped[j].status = StatusOK
       /\ seen.skipped[k].status # StatusOK
       /\ rounds[seen.skipped[j].round].replicated_cb_ = Null
       /\ history[seen.skipped[j].round].delivered = <<>>

\* C17: no Round has a null operation: both constructors reject one.
C17_NoRoundWithoutOperation ==
  \A r \in RoundIds : rounds[r].replicate_msg_ # Null

\* C18: the callback is run inside the call: the step in which a
\* NotifyReplicationFinished call that found a callback returns is the step
\* that runs the callback, with the status that call was given, and no
\* callback is run in any other step.
C18_CallbackRunInsideTheCall ==
  [][/\ \A t \in Threads, r \in RoundIds, s \in NotifyStatuses :
          (NotifyTest(t, r, s) /\ th'[t].pc = "notify_invoke")
            => th'[t].round = r /\ th'[t].status = s
     /\ \A t \in Threads :
          (th[t].pc = "notify_invoke" /\ th'[t].pc = "idle")
            => history'[th[t].round].delivered
                 = Append(history[th[t].round].delivered, th[t].status)
     /\ \A r \in RoundIds :
          Len(history'[r].delivered) > Len(history[r].delivered)
            => \E t \in Threads : Delivers(t, r)]_vars

\* A call given a failure has returned and the callback has run with it.
C18_Witness ==
  /\ \A t \in Threads : th[t].pc = "idle"
  /\ \E r \in RoundIds :
       /\ rounds[r].replicated_cb_ # Null
       /\ history[r].delivered = <<[code |-> "Aborted", msg |-> <<"cancelled">>]>>

\* C19: NewRound adds one Round, which holds the operation and the callback
\* it was given and refers to the Role, with its callback not run; the
\* Rounds made before, what their callbacks were run with, the installed
\* registry and every thread's call are as they were.
C19_NewRoundOnlyAllocates ==
  [][\A m \in Msgs \cup {Null}, cb \in Callbacks \cup {Null} :
       NewRound(m, cb)
         => /\ Len(rounds') = Len(rounds) + 1
            /\ SubSeq(rounds', 1, Len(rounds)) = rounds
            /\ rounds'[Len(rounds')].consensus_ = "this"
            /\ rounds'[Len(rounds')].replicate_msg_ = m
            /\ rounds'[Len(rounds')].replicated_cb_ = cb
            /\ SubSeq(history', 1, Len(history)) = history
            /\ history'[Len(history')].delivered = <<>>
            /\ UNCHANGED <<current_term, fault_hooks_, th, process>>]_vars

\* A second Round was made, with a callback, next to a first one, with a
\* registry installed and a thread inside ExecuteHook.
C19_Witness ==
  /\ Len(rounds) = 2
  /\ rounds[1].replicated_cb_ = Null
  /\ rounds[2].replicated_cb_ # Null
  /\ history[2].delivered = <<>>
  /\ fault_hooks_ = "A"
  /\ \E t \in Threads : th[t].pc = "hook_call"

\* C20: a CheckBoundTerm call writes nothing: the Rounds, what their
\* callbacks were run with, the Role's term and the registry are as before
\* it; two calls with the same bound term and the same argument return the
\* same status; and after a call that failed on a Round bound to T, a call
\* with T on that Round returns OK.
C20_CheckBoundTermIsAQuery ==
  /\ [][\A t \in Threads :
          (th[t].pc = "idle" /\ th'[t].op = "CheckBoundTerm")
            => UNCHANGED <<rounds, history, current_term, fault_hooks_, process>>]_vars
  /\ [](\A t, u \in Threads :
          (CheckedBy(t) /\ CheckedBy(u))
            => /\ (th[t].bound = th[u].bound /\ th[t].term = th[u].term)
                    => th[t].ret = th[u].ret
               /\ (/\ th[t].round = th[u].round
                   /\ th[t].ret.code = "Aborted"
                   /\ th[u].term = th[t].bound)
                    => th[u].ret = StatusOK)

\* A Round bound to a term failed a check with another term and passed one
\* with its own, and is as it was: still bound, its callback not run.
C20_Witness ==
  \E t, u \in Threads :
    /\ CheckedBy(t) /\ CheckedBy(u)
    /\ th[t].round = th[u].round
    /\ th[t].ret.code = "Aborted"
    /\ th[u].ret = StatusOK
    /\ th[u].term = th[t].bound
    /\ rounds[th[t].round].bound_term_ = th[t].bound
    /\ history[th[t].round].delivered = <<>>

====
